---- MODULE Spec2Model ----
(***************************************************************************)
(* Model of the Techsiro price monitor server (src/server.js).             *)
(*                                                                         *)
(* src/server.js holds two successive revisions of the server.  Lines      *)
(* 1-228 are the earlier revision: a generic scan over every element       *)
(* followed by a fallback over price selectors.  Lines 230-460 are the     *)
(* later revision: a structural scan over <p> elements only, with the      *)
(* thousands separators stripped from the result.  The HTTP handlers are   *)
(* the same in both.  Definitions of the earlier revision that share a     *)
(* name with the later one carry the suffix Legacy.                        *)
(*                                                                         *)
(* Strings are sequences of characters.  A character is written as a       *)
(* short TLA+ string: "p0".."p9" are the Persian digits U+06F0..U+06F9,    *)
(* "a0".."a9" the Arabic-Indic digits U+0660..U+0669, "0".."9" the ASCII   *)
(* digits, "psep" the thousands mark U+066C, "," the ASCII comma.  The     *)
(* words the code searches for are single tokens with their length in      *)
(* UTF-16 units given by Width.                                            *)
(***************************************************************************)
EXTENDS Integers, Sequences, FiniteSets, TLC

VARIABLES
    products,     \* contents of PRODUCTS_FILE: a sequence of <<name, url>>
    requests,     \* HTTP requests in flight or answered, by request id
    page,         \* outcome of axios.get handed to an extraction
    price,        \* result of scrapePrice (lines 248-306) on the document
    legacyPrice,  \* result of scrapePrice (lines 19-77) on the document
    num,          \* argument of toPersianNumber
    grouped,      \* toPersianNumber(num)
    canonical,    \* parseInt(toEnglishNumber(grouped))
    str,          \* argument of convertToEnglishNumbers
    ascii,        \* convertToEnglishNumbers(str)
    asciiTwice    \* convertToEnglishNumbers(ascii)

serverVars == <<products, requests>>
extractVars == <<page, price, legacyPrice>>
numeralVars == <<num, grouped, canonical, str, ascii, asciiTwice>>
vars == <<products, requests, page, price, legacyPrice,
          num, grouped, canonical, str, ascii, asciiTwice>>

(***************************************************************************)
(* Values                                                                  *)
(***************************************************************************)

\* JavaScript null; no string of the model equals it
null == <<"null">>

\* a variable that has not been assigned yet
unset == <<"unset">>

\* a numeric variable that has not been assigned yet
NoNumber == 0 - 1

\* JavaScript NaN, the result of parseInt on a string without leading digits
NaN == 0 - 999999999

(***************************************************************************)
(* Characters                                                              *)
(***************************************************************************)

persianNumbers == <<"p0", "p1", "p2", "p3", "p4", "p5", "p6", "p7", "p8", "p9">>

arabicNumbers == <<"a0", "a1", "a2", "a3", "a4", "a5", "a6", "a7", "a8", "a9">>

englishNumbers == <<"0", "1", "2", "3", "4", "5", "6", "7", "8", "9">>

Range(s) == {s[i] : i \in 1..Len(s)}

PersianDigits == Range(persianNumbers)

ArabicDigits == Range(arabicNumbers)

AsciiDigits == Range(englishNumbers)

\* \s of a JavaScript regular expression, and what trim() removes
Whitespace == {" ", "nl"}

\* the character class [۰-۹0-9٬,] of the price pattern
NumeralChars == PersianDigits \cup AsciiDigits \cup {"psep", ","}

\* \w of a JavaScript regular expression, among the characters of the model
WordChars == AsciiDigits \cup {"x", "e"}

\* length in UTF-16 code units of a token
Width(c) ==
    CASE c = "toman" -> 5
      [] c = "sood" -> 3
      [] c = "takhfif" -> 5
      [] c = "discount" -> 8
      [] OTHER -> 1

RECURSIVE Length(_)
\* String.prototype.length
Length(s) == IF s = <<>> THEN 0 ELSE Width(Head(s)) + Length(Tail(s))

\* the value of an ASCII digit character
DigitValue(c) == CHOOSE d \in 0..9 : englishNumbers[d + 1] = c

(***************************************************************************)
(* Numeral normalizer                                                      *)
(***************************************************************************)

\* result.replace(new RegExp(num), r): without the g flag, the first occurrence only
ReplaceFirst(s, c, r) ==
    [i \in 1..Len(s) |->
        IF s[i] = c /\ (\A j \in 1..(i - 1) : s[j] # c) THEN r ELSE s[i]]

\* result.replace(new RegExp(num, 'g'), r)
ReplaceAll(s, c, r) == [i \in 1..Len(s) |-> IF s[i] = c THEN r ELSE s[i]]

RECURSIVE ReplaceEach(_, _, _)
\* numbers.forEach((num, idx) => { result = result.replace(.., idx.toString()) })
ReplaceEach(s, numbers, k) ==
    IF k > Len(numbers) THEN s
    ELSE ReplaceEach(ReplaceAll(s, numbers[k], englishNumbers[k]), numbers, k + 1)

\* lines 80-93
convertToEnglishNumbers(s) ==
    ReplaceEach(ReplaceEach(s, persianNumbers, 1), arabicNumbers, 1)

\* result.replace(/[^0-9]/g, '')
StripNonDigits(s) == SelectSeq(s, LAMBDA c : c \in AsciiDigits)

\* toEnglishNumber without its last replace
toEnglishNumberKeepAll(s) ==
    ReplaceEach(ReplaceEach(s, persianNumbers, 1), arabicNumbers, 1)

\* lines 309-325
toEnglishNumber(s) ==
    StripNonDigits(ReplaceEach(ReplaceEach(s, persianNumbers, 1), arabicNumbers, 1))

RECURSIVE SkipWhile(_, _)
\* the suffix of s after its longest prefix of characters in set
SkipWhile(s, set) ==
    IF s # <<>> /\ Head(s) \in set THEN SkipWhile(Tail(s), set) ELSE s

RECURSIVE DigitsValue(_, _)
\* the value of the longest prefix of ASCII digits of s, after acc
DigitsValue(s, acc) ==
    IF s # <<>> /\ Head(s) \in AsciiDigits
    THEN DigitsValue(Tail(s), 10 * acc + DigitValue(Head(s)))
    ELSE acc

\* parseInt(s): leading whitespace, an optional sign, then decimal digits
parseInt(s) ==
    LET t == SkipWhile(s, Whitespace)
        signed == t # <<>> /\ Head(t) \in {"-", "+"}
        d == IF signed THEN Tail(t) ELSE t
    IN  IF d = <<>> \/ Head(d) \notin AsciiDigits THEN NaN
        ELSE IF signed /\ Head(t) = "-" THEN 0 - DigitsValue(d, 0)
        ELSE DigitsValue(d, 0)

\* a > b of JavaScript numbers: false when either is NaN
GreaterThan(a, b) == a # NaN /\ b # NaN /\ a > b

\* a >= b of JavaScript numbers
GreaterOrEqual(a, b) == a # NaN /\ b # NaN /\ a >= b

\* a < b of JavaScript numbers
LessThan(a, b) == a # NaN /\ b # NaN /\ a < b

RECURSIVE toString(_)
\* Number.prototype.toString of a non-negative integer below 10^21
toString(n) ==
    IF n < 10 THEN <<englishNumbers[n + 1]>>
    ELSE Append(toString(n \div 10), englishNumbers[(n % 10) + 1])

RECURSIVE DigitRun(_, _)
\* number of consecutive ASCII digits of s starting at position i
DigitRun(s, i) ==
    IF i <= Len(s) /\ s[i] \in AsciiDigits THEN 1 + DigitRun(s, i + 1) ELSE 0

\* /\B(?=(\d{3})+(?!\d))/ matches between s[i] and s[i+1]
GroupBoundary(s, i) ==
    /\ i >= 1
    /\ i < Len(s)
    /\ (s[i] \in WordChars) = (s[i + 1] \in WordChars)
    /\ DigitRun(s, i + 1) > 0
    /\ DigitRun(s, i + 1) % 3 = 0

RECURSIVE InsertMarks(_, _)
\* numStr.replace(/\B(?=(\d{3})+(?!\d))/g, '٬'), from position i on
InsertMarks(s, i) ==
    IF i > Len(s) THEN <<>>
    ELSE (IF GroupBoundary(s, i) THEN <<s[i], "psep">> ELSE <<s[i]>>)
         \o InsertMarks(s, i + 1)

\* lines 328-342 (and 96-110)
toPersianNumber(n) ==
    LET withCommas == InsertMarks(toString(n), 1)
    IN  [i \in 1..Len(withCommas) |->
            IF withCommas[i] \in AsciiDigits
            THEN persianNumbers[DigitValue(withCommas[i]) + 1]
            ELSE withCommas[i]]

(***************************************************************************)
(* Documents                                                               *)
(*                                                                         *)
(* A document is the sequence of the elements of its body in document      *)
(* order.  An element is [tag, class, id, text]: class is the set of the   *)
(* names in its class attribute (empty when the attribute is absent), id   *)
(* its id attribute ("" when absent), text the result of .text().          *)
(***************************************************************************)

\* the class and id names of the model that contain the given marker
NamesContaining(marker) ==
    CASE marker = "line-through" -> {"line-through", "hover:line-through"}
      [] marker = "font-bold" -> {"font-bold", "md:font-bold"}
      [] marker = "price" -> {"price", "product-price", "old-price-box", "main-price-id"}
      [] OTHER -> {marker}

\* elemClass.includes(marker) on the class attribute
ClassIncludes(class, marker) == class \cap NamesContaining(marker) # {}

\* text.includes(word)
TextIncludes(text, word) == \E i \in 1..Len(text) : text[i] = word

RECURSIVE TrimEnd(_)
TrimEnd(s) ==
    IF s # <<>> /\ s[Len(s)] \in Whitespace THEN TrimEnd(SubSeq(s, 1, Len(s) - 1)) ELSE s

\* String.prototype.trim
Trim(s) == TrimEnd(SkipWhile(s, Whitespace))

RECURSIVE RunEnd(_, _)
\* the last position of the run of numeral characters that holds position i
RunEnd(text, i) ==
    IF i < Len(text) /\ text[i + 1] \in NumeralChars THEN RunEnd(text, i + 1) ELSE i

RECURSIVE SkipSpaces(_, _)
\* the first position from k on that holds no whitespace
SkipSpaces(text, k) ==
    IF k <= Len(text) /\ text[k] \in Whitespace THEN SkipSpaces(text, k + 1) ELSE k

\* /([۰-۹0-9٬,]+)\s*تومان/ matches with its capture starting at position i
MatchesAt(text, i) ==
    /\ text[i] \in NumeralChars
    /\ LET k == SkipSpaces(text, RunEnd(text, i) + 1)
       IN  k <= Len(text) /\ text[k] = "toman"

\* text.match(/([۰-۹0-9٬,]+)\s*تومان/): priceMatch[1], or null without a match
priceMatch(text) ==
    IF \E i \in 1..Len(text) : MatchesAt(text, i)
    THEN LET first == CHOOSE i \in 1..Len(text) :
                         MatchesAt(text, i) /\ \A j \in 1..(i - 1) : ~MatchesAt(text, j)
         IN  SubSeq(text, first, RunEnd(text, first))
    ELSE null

\* !price of JavaScript: null and the empty string are falsy
Falsy(v) == v = null \/ v = <<>>

\* $('p'): the paragraph elements in document order
Paragraphs(doc) == SelectSeq(doc, LAMBDA e : e.tag = "p")

\* the line-through test left out
IsLineThroughIgnored(elem) == FALSE

\* lines 269-272: the element is a struck-through price
IsLineThrough(elem) == ClassIncludes(elem.class, "line-through")

\* the savings word left out of the discount test
IsDiscountWithoutSood(text) ==
    TextIncludes(text, "takhfif") \/ TextIncludes(text, "discount")

\* lines 274-277: the text holds a discount or savings word
IsDiscount(text) ==
    TextIncludes(text, "sood") \/ TextIncludes(text, "takhfif") \/ TextIncludes(text, "discount")

\* line 280: a bold element with the currency word
IsBoldPrice(elem, text) ==
    ClassIncludes(elem.class, "font-bold") /\ TextIncludes(text, "toman")

\* the magnitude test with a threshold of 100
IsValidPriceAbove100(priceText) ==
    GreaterThan(parseInt(toEnglishNumber(priceText)), 100)

\* lines 284-287: the captured numeral is a valid price
IsValidPrice(priceText) ==
    GreaterThan(parseInt(toEnglishNumber(priceText)), 1000)

\* the callback of $('p').each (lines 264-293) on one element: the price
\* text it assigns before returning false, or null when it returns undefined
ScanElement(elem) ==
    LET text == Trim(elem.text)
    IN  IF IsLineThrough(elem) THEN null
        ELSE IF IsDiscount(text) THEN null
        ELSE IF IsBoldPrice(elem, text)
             THEN LET priceText == priceMatch(text)
                  IN  IF priceText # null /\ IsValidPrice(priceText)
                      THEN priceText
                      ELSE null
             ELSE null

RECURSIVE Each(_, _)
\* $('p').each(..) from element i on: stops at the first assignment
Each(ps, i) ==
    IF i > Len(ps) THEN null
    ELSE IF ScanElement(ps[i]) # null THEN ScanElement(ps[i])
    ELSE Each(ps, i + 1)

\* price.replace(/[٬,]/g, '')
RemoveCommas(s) == SelectSeq(s, LAMBDA c : c \notin {"psep", ","})

\* the page was fetched: axios.get resolved with a 2xx response
Fetched(doc) == <<"ok", doc>>

\* axios.get rejected: network error, non-2xx status or timeout
FetchFailed == <<"failed">>

\* the value that stands for an exception leaving a function
threw == <<"threw">>

\* scrapePrice without its try/catch
scrapePriceUncaught(response) ==
    IF response = FetchFailed THEN threw
    ELSE LET found == Each(Paragraphs(response[2]), 1)
         IN  IF Falsy(found) THEN null ELSE RemoveCommas(found)

\* lines 248-306
scrapePrice(response) ==
    IF response = FetchFailed THEN null
    ELSE LET found == Each(Paragraphs(response[2]), 1)
         IN  IF Falsy(found) THEN null ELSE RemoveCommas(found)

(***************************************************************************)
(* The earlier revision of scrapePrice (lines 19-77)                       *)
(***************************************************************************)

RECURSIVE Concat(_)
\* the texts of a sequence of elements, joined
Concat(es) == IF es = <<>> THEN <<>> ELSE Head(es).text \o Concat(Tail(es))

\* the head element of a page without a title
HeadElement == [tag |-> "head", class |-> {}, id |-> "", text |-> <<>>]

\* $('*'): html, head, body, then the elements of the body; .text() of
\* html and of body is the text of all their descendants
AllElements(doc) ==
    <<[HeadElement EXCEPT !.tag = "html", !.text = Concat(doc)],
      HeadElement,
      [HeadElement EXCEPT !.tag = "body", !.text = Concat(doc)]>> \o doc

\* lines 36-46 on one element, when price is still null: the price text
\* it assigns, or null
GenericScanElement(elem) ==
    LET text == Trim(elem.text)
        priceText == priceMatch(text)
    IN  IF priceText # null /\ Length(text) < 100 /\ Length(priceText) > 5
        THEN priceText
        ELSE null

RECURSIVE GenericEach(_, _)
\* $('*').each(..) from element i on (lines 35-47): the first assignment
\* stays, because of the test !price
GenericEach(es, i) ==
    IF i > Len(es) THEN null
    ELSE IF ~Falsy(GenericScanElement(es[i])) THEN GenericScanElement(es[i])
    ELSE GenericEach(es, i + 1)

\* lines 51-57
priceSelectors == <<".product-price", ".price", "#product-price",
                    "[class*=price]", "[id*=price]">>

\* the element matches the selector
Selects(selector, elem) ==
    CASE selector = ".product-price" -> "product-price" \in elem.class
      [] selector = ".price" -> "price" \in elem.class
      [] selector = "#product-price" -> elem.id = "product-price"
      [] selector = "[class*=price]" -> ClassIncludes(elem.class, "price")
      [] selector = "[id*=price]" -> elem.id \in NamesContaining("price")

\* $(selector).first(): the matching elements, of which the first is used
Selected(selector, doc) == SelectSeq(doc, LAMBDA e : Selects(selector, e))

\* lines 60-68 for one selector: the capture in its first element, or null
SelectorCapture(selector, doc) ==
    IF Selected(selector, doc) = <<>> THEN null
    ELSE priceMatch(Trim(Head(Selected(selector, doc)).text))

RECURSIVE SelectorScan(_, _)
\* lines 59-69 from selector k on: the first capture found
SelectorScan(doc, k) ==
    IF k > Len(priceSelectors) THEN null
    ELSE IF SelectorCapture(priceSelectors[k], doc) # null
         THEN SelectorCapture(priceSelectors[k], doc)
    ELSE SelectorScan(doc, k + 1)

\* lines 19-77
scrapePriceLegacy(response) ==
    IF response = FetchFailed THEN null
    ELSE LET method1 == GenericEach(AllElements(response[2]), 1)
         IN  IF Falsy(method1) THEN SelectorScan(response[2], 1) ELSE method1

(***************************************************************************)
(* The HTTP handlers (lines 344-455, the same as lines 112-223)            *)
(*                                                                         *)
(* A product is [name, url].  A name is a string; a URL is the sequence    *)
(* of its parts <<scheme, host, path>>.  A request is a record: method     *)
(* and route, the fields of its body or its :index parameter, the place    *)
(* where its handler waits (pc), the list it parsed from the file, the     *)
(* outcome and the result of each scrapePrice call it awaits, and its      *)
(* response.  The timestamp of the price entries is left out.  The file    *)
(* holds a JSON array; reading or writing it may be rejected, which the    *)
(* catch block of the handler answers with 500.  A write that succeeds     *)
(* replaces the contents of the file in one step, and the answer of the    *)
(* handler follows it in the same step.                                    *)
(***************************************************************************)

\* JavaScript undefined, for a field missing from the request body
undefined == <<"undefined">>

\* the parts of a URL that contain the text techsiro.com
PartsContainingDomain == {"techsiro.com", "/techsiro.com"}

\* url.includes('techsiro.com')
UrlIncludesDomain(url) == \E i \in 1..Len(url) : url[i] \in PartsContainingDomain

\* !name, !url: undefined and the empty string are falsy
Missing(field) == field = undefined \/ field = <<>>

\* the locals of a handler before it runs; settled lists its scrapePrice
\* calls in the order they settled
EnteredHandler ==
    [method |-> "", name |-> undefined, url |-> undefined, index |-> NaN,
     pc |-> "read", list |-> <<>>, pages |-> <<>>, scraped |-> <<>>,
     settled |-> <<>>, status |-> 0, body |-> <<>>]

\* a handler that has just been entered
NewRequest(method) == [EnteredHandler EXCEPT !.method = method]

\* res.status(status).json(body): the handler is over
Answer(req, status, body) == [req EXCEPT !.pc = "done", !.status = status, !.body = body]

\* the entry of one product, with its position counted from 1
PriceEntryOneBased(req, k) ==
    [index |-> k, name |-> req.list[k].name, url |-> req.list[k].url,
     price |-> req.scraped[k]]

\* the entry of one product in the answer of GET /api/prices, lines 390-396
PriceEntry(req, k) ==
    [index |-> k - 1, name |-> req.list[k].name, url |-> req.list[k].url,
     price |-> req.scraped[k]]

\* lines 412-419: the checks of POST /api/products before the file is read
PostProductsChecks(name, url) ==
    IF Missing(name) \/ Missing(url) THEN <<400, "Name and URL are required">>
    ELSE IF ~UrlIncludesDomain(url) THEN <<400, "URL must be from techsiro.com">>
    ELSE <<0, "">>

\* index < 0 || index >= products.length, lines 363 and 442
IndexOutOfRange(index, list) ==
    LessThan(index, 0) \/ GreaterOrEqual(index, Len(list))

\* products.splice(index, 1) on a list the index passed the range test for:
\* splice reads a NaN start as 0
Splice(list, index) ==
    LET start == IF index = NaN THEN 0 ELSE index
    IN  IF start < Len(list)
        THEN SubSeq(list, 1, start) \o SubSeq(list, start + 2, Len(list))
        ELSE list

\* deleted[0] after the splice
Spliced(list, index) ==
    LET start == IF index = NaN THEN 0 ELSE index
    IN  IF start < Len(list) THEN <<list[start + 1]>> ELSE <<undefined>>

(***************************************************************************)
(* Inputs                                                                  *)
(***************************************************************************)

\* longest document, in elements
MaxElements == 2

\* longest argument of convertToEnglishNumbers, in characters
MaxStrLen == 2

\* the integers 0..MaxNum are arguments of toPersianNumber
MaxNum == 1100

\* a price as the site shows it: grouped Persian digits, a space, the currency word
PriceText(n) == toPersianNumber(n) \o <<" ", "toman">>

\* texts of paragraph elements
ParagraphTexts ==
    { PriceText(63600000),
      PriceText(70000000),
      <<"5", "0", "0", " ", "toman">>,
      toPersianNumber(1000) \o <<"toman">>,
      <<" ", "1", ",", "0", "0", "1", "nl", "toman", " ">>,
      <<"sood", " ">> \o PriceText(2000000),
      <<"psep", " ", "toman">>,
      <<"x", " ", "toman">>,
      <<"p5", "p0", "p0", " ", "toman", " ", "p9", "p0", "p0", "p0", " ", "toman">>,
      <<"a9", "p5", "p0", "p0", "p0", " ", "toman">> }

\* class attributes of paragraph elements
ParagraphClasses ==
    { {"font-bold"}, {"font-bold", "line-through"}, {"text-sm"} }

\* texts of other elements
OtherTexts ==
    { PriceText(1234567), <<"psep", " ", "toman">>, <<"x", "x">> }

\* class and id attributes of other elements
OtherAttributes ==
    { <<{"price"}, "">>, <<{"old-price-box"}, "">>, <<{}, "product-price">>,
      <<{"font-bold"}, "">> }

Elements ==
    { [tag |-> "p", class |-> c, id |-> "", text |-> t] :
          c \in ParagraphClasses, t \in ParagraphTexts }
    \cup
    { [tag |-> "div", class |-> a[1], id |-> a[2], text |-> t] :
          a \in OtherAttributes, t \in OtherTexts }

\* a page with the old price struck through and the current price in bold
PricePage ==
    <<[tag |-> "p", class |-> {"font-bold", "line-through"}, id |-> "",
       text |-> PriceText(70000000)],
      [tag |-> "p", class |-> {"font-bold"}, id |-> "", text |-> PriceText(63600000)]>>

Documents == UNION { [1..n -> Elements] : n \in 0..MaxElements }

StringChars ==
    PersianDigits \cup ArabicDigits \cup AsciiDigits \cup {"psep", ",", " ", "x", "toman"}

Strings == UNION { [1..n -> StringChars] : n \in 0..MaxStrLen }

Numbers == (0..MaxNum) \cup {999999, 1000000, 63600000}

(***************************************************************************)
(* Extraction on its own: one page, both revisions of scrapePrice          *)
(***************************************************************************)

ServerIdle == products = <<>> /\ requests = <<>>

NumeralIdle ==
    /\ num = NoNumber /\ grouped = unset /\ canonical = NoNumber
    /\ str = unset /\ ascii = unset /\ asciiTwice = unset

ExtractIdle == page = unset /\ price = unset /\ legacyPrice = unset

InitExtract ==
    /\ page \in {FetchFailed} \cup {Fetched(d) : d \in Documents}
    /\ price = unset
    /\ legacyPrice = unset
    /\ ServerIdle
    /\ NumeralIdle

\* one call of scrapePrice, lines 248-306
Scrape ==
    /\ page # unset
    /\ price = unset
    /\ price' = scrapePrice(page)
    /\ UNCHANGED <<page, legacyPrice>>
    /\ UNCHANGED serverVars
    /\ UNCHANGED numeralVars

\* one call of scrapePrice, lines 19-77
ScrapeLegacy ==
    /\ page # unset
    /\ legacyPrice = unset
    /\ legacyPrice' = scrapePriceLegacy(page)
    /\ UNCHANGED <<page, price>>
    /\ UNCHANGED serverVars
    /\ UNCHANGED numeralVars

NextExtract == Scrape \/ ScrapeLegacy

SpecExtract == InitExtract /\ [][NextExtract]_vars

(***************************************************************************)
(* The numeral normalizer on its own                                       *)
(***************************************************************************)

InitNumeral ==
    /\ \/ num \in Numbers /\ str = unset
       \/ num = NoNumber /\ str \in Strings
    /\ grouped = unset
    /\ canonical = NoNumber
    /\ ascii = unset
    /\ asciiTwice = unset
    /\ ServerIdle
    /\ ExtractIdle

\* toPersianNumber(num)
FormatGrouped ==
    /\ num # NoNumber
    /\ grouped = unset
    /\ grouped' = toPersianNumber(num)
    /\ UNCHANGED <<num, canonical, str, ascii, asciiTwice>>
    /\ UNCHANGED serverVars
    /\ UNCHANGED extractVars

\* parseInt(toEnglishNumber(grouped)), as at line 284
ToCanonicalInteger ==
    /\ grouped # unset
    /\ canonical = NoNumber
    /\ canonical' = parseInt(toEnglishNumber(grouped))
    /\ UNCHANGED <<num, grouped, str, ascii, asciiTwice>>
    /\ UNCHANGED serverVars
    /\ UNCHANGED extractVars

\* convertToEnglishNumbers(str)
ToAsciiDigits ==
    /\ str # unset
    /\ ascii = unset
    /\ ascii' = convertToEnglishNumbers(str)
    /\ UNCHANGED <<num, grouped, canonical, str, asciiTwice>>
    /\ UNCHANGED serverVars
    /\ UNCHANGED extractVars

\* convertToEnglishNumbers applied to its own result
ToAsciiDigitsAgain ==
    /\ ascii # unset
    /\ asciiTwice = unset
    /\ asciiTwice' = convertToEnglishNumbers(ascii)
    /\ UNCHANGED <<num, grouped, canonical, str, ascii>>
    /\ UNCHANGED serverVars
    /\ UNCHANGED extractVars

NextNumeral == FormatGrouped \/ ToCanonicalInteger \/ ToAsciiDigits \/ ToAsciiDigitsAgain

SpecNumeral == InitNumeral /\ [][NextNumeral]_vars

(***************************************************************************)
(* Properties of the extraction                                            *)
(***************************************************************************)

SavingsWords == {"sood", "takhfif", "discount"}

SeparatorChars == {"psep", ","}

AnyScriptDigits == PersianDigits \cup ArabicDigits \cup AsciiDigits

AnyScriptValue(c) ==
    CHOOSE d \in 0..9 : c \in {persianNumbers[d + 1], arabicNumbers[d + 1], englishNumbers[d + 1]}

RECURSIVE CanonicalFrom(_, _, _)
CanonicalFrom(s, acc, seen) ==
    IF s = <<>> THEN (IF seen THEN acc ELSE NaN)
    ELSE IF Head(s) \in AnyScriptDigits
         THEN CanonicalFrom(Tail(s), 10 * acc + AnyScriptValue(Head(s)), TRUE)
         ELSE CanonicalFrom(Tail(s), acc, seen)

\* the canonical integer of a numeral text: its digits of any script, read
\* in base 10, every other character dropped; NaN without a digit
CanonicalInteger(s) == CanonicalFrom(s, 0, FALSE)

SeparatorsStripped(s) == SelectSeq(s, LAMBDA c : c \notin SeparatorChars)

\* a paragraph that is bold, carries the currency word and a numeral before
\* it, is not struck through and holds no savings word
IsCandidate(e) ==
    /\ e.tag = "p"
    /\ ~ClassIncludes(e.class, "line-through")
    /\ \A w \in SavingsWords : ~TextIncludes(e.text, w)
    /\ ClassIncludes(e.class, "font-bold")
    /\ TextIncludes(e.text, "toman")
    /\ priceMatch(e.text) # null

\* a candidate whose numeral is above 1000
Qualifies(e) ==
    /\ IsCandidate(e)
    /\ CanonicalInteger(priceMatch(e.text)) # NaN
    /\ CanonicalInteger(priceMatch(e.text)) > 1000

\* a candidate whose numeral is at most 1000
IsSmallCandidate(e) ==
    /\ IsCandidate(e)
    /\ CanonicalInteger(priceMatch(e.text)) # NaN
    /\ CanonicalInteger(priceMatch(e.text)) <= 1000

PageFetched == page # unset /\ page # FetchFailed

\* C1: when scrapePrice returns a price found by the scan over the
\* paragraphs, that price is the numeral (separators removed) of the first
\* element in document order that is a paragraph, not struck through, without
\* a savings word, bold, with the currency word and a numeral above 1000;
\* never that of a later or of a struck-through element.
C1_FirstStructuralMatch ==
    (PageFetched /\ price # unset /\ price # null) =>
        \E i \in 1..Len(page[2]) :
            /\ Qualifies(page[2][i])
            /\ \A j \in 1..(i - 1) : ~Qualifies(page[2][j])
            /\ price = SeparatorsStripped(priceMatch(page[2][i].text))

\* a struck-through 70000000 before the bold 63600000: 63600000 is returned
C1_Witness ==
    /\ PageFetched
    /\ page = Fetched(PricePage)
    /\ price = <<"p6", "p3", "p6", "p0", "p0", "p0", "p0", "p0">>

\* the bold elements of the page that carry the currency word
BoldCurrencyElements ==
    { e \in Range(page[2]) :
        ClassIncludes(e.class, "font-bold") /\ TextIncludes(e.text, "toman") }

\* C2: when every bold element with the currency word also holds a savings
\* word, the element is rejected and scrapePrice returns null.
C2_SavingsElementRejected ==
    ( /\ PageFetched
      /\ price # unset
      /\ BoldCurrencyElements # {}
      /\ \A e \in BoldCurrencyElements : \E w \in SavingsWords : TextIncludes(e.text, w) )
    => price = null

\* the only bold currency element would qualify but for its savings word
C2_Witness ==
    /\ PageFetched
    /\ price = null
    /\ Cardinality(BoldCurrencyElements) = 1
    /\ \E e \in BoldCurrencyElements :
          /\ e.tag = "p"
          /\ ~ClassIncludes(e.class, "line-through")
          /\ TextIncludes(e.text, "sood")
          /\ CanonicalInteger(priceMatch(e.text)) = 2000000

\* C3: a bold, currency-bearing, non-struck, non-discount paragraph whose
\* numeral is at most 1000 is never the price: every price returned is above
\* 1000, the scan goes on to a later qualifying element, and without one
\* scrapePrice returns null.
C3_SmallNumeralSkipped ==
    /\ (price # unset /\ price # null) =>
           (CanonicalInteger(price) # NaN /\ CanonicalInteger(price) > 1000)
    /\ (PageFetched /\ price # unset) =>
           \A i \in 1..Len(page[2]) :
               IsSmallCandidate(page[2][i]) =>
                   /\ (\A j \in 1..Len(page[2]) : ~Qualifies(page[2][j])) => price = null
                   /\ (\E j \in (i + 1)..Len(page[2]) : Qualifies(page[2][j])) => price # null

\* a bold 500 is passed over and the bold price after it is returned
C3_Witness ==
    /\ PageFetched
    /\ Len(page[2]) = 2
    /\ IsSmallCandidate(page[2][1])
    /\ CanonicalInteger(priceMatch(page[2][1].text)) = 500
    /\ Qualifies(page[2][2])
    /\ price = SeparatorsStripped(priceMatch(page[2][2].text))

\* the results of the two revisions of scrapePrice on the page
Results == {price, legacyPrice}

\* C4: the selector scan runs exactly when the scan over the paragraphs found
\* nothing; when no paragraph qualifies and a price selector's element holds
\* a numeral before the currency word, the result is that numeral with the
\* separators removed, not null.
C4_FallbackSelectorScan ==
    \A r \in Results :
        (PageFetched /\ r # unset) =>
            /\ ( (\A i \in 1..Len(page[2]) : ~Qualifies(page[2][i]))
                 /\ SelectorScan(page[2], 1) # null
                 /\ CanonicalInteger(SelectorScan(page[2], 1)) # NaN )
               => r = SeparatorsStripped(SelectorScan(page[2], 1))
            /\ (\E i \in 1..Len(page[2]) : Qualifies(page[2][i]))
               => \E i \in 1..Len(page[2]) :
                     /\ Qualifies(page[2][i])
                     /\ \A j \in 1..(i - 1) : ~Qualifies(page[2][j])
                     /\ r = SeparatorsStripped(priceMatch(page[2][i].text))

\* C5: a result that is not null (taken here with at least one digit, the
\* results without a digit being the matter of C6) holds no thousands
\* separator, Persian or ASCII, and is otherwise the numeral captured in
\* some element of the page.
C5_ResultWithoutSeparators ==
    \A r \in Results :
        (PageFetched /\ r # unset /\ r # null /\ Range(r) \cap AnyScriptDigits # {}) =>
            /\ Range(r) \cap SeparatorChars = {}
            /\ \E e \in Range(AllElements(page[2])) :
                  /\ priceMatch(e.text) # null
                  /\ r = SeparatorsStripped(priceMatch(e.text))

\* C6: a capture without a digit is a miss: no result that is not null is
\* made of separators only, whichever scan produced it.
C6_SeparatorOnlyCaptureIsMiss ==
    \A r \in Results :
        (r # unset /\ r # null) => Range(r) \cap AnyScriptDigits # {}

(***************************************************************************)
(* Properties of the numeral normalizer                                    *)
(***************************************************************************)

\* C8: parseInt(toEnglishNumber(toPersianNumber(n))) = n for the integers
\* checked, toPersianNumber(n) being Persian digits with the mark U+066C
\* before every group of 3 digits counted from the right.
C8_RoundTrip ==
    /\ grouped # unset =>
           \A i \in 1..Len(grouped) :
               IF (Len(grouped) - i + 1) % 4 = 0
               THEN grouped[i] = "psep"
               ELSE grouped[i] \in PersianDigits
    /\ canonical # NoNumber => canonical = num

\* 63600000 is formatted with two marks and read back
C8_Witness ==
    /\ num = 63600000
    /\ grouped = <<"p6", "p3", "psep", "p6", "p0", "p0", "psep", "p0", "p0", "p0">>
    /\ canonical = 63600000

\* the ASCII digit of a Persian or Arabic-Indic digit, any other character itself
AsciiOf(c) ==
    IF c \in PersianDigits \cup ArabicDigits THEN englishNumbers[AnyScriptValue(c) + 1] ELSE c

\* C9: convertToEnglishNumbers maps every Persian and Arabic-Indic digit to
\* its ASCII digit, leaves every other character in place, and applied to
\* its own result changes nothing.
C9_AsciiDigitsIdempotent ==
    /\ ascii # unset =>
           /\ Len(ascii) = Len(str)
           /\ \A i \in 1..Len(str) : ascii[i] = AsciiOf(str[i])
    /\ asciiTwice # unset => asciiTwice = ascii

\* the same Persian digit twice, converted once and again
C9_Witness ==
    /\ str = <<"p7", "p7">>
    /\ ascii = <<"7", "7">>
    /\ asciiTwice = <<"7", "7">>

(***************************************************************************)
(* The server                                                              *)
(***************************************************************************)

\* requests received in one run
MaxRequests == 2

\* longest product list
MaxProducts == 2

GoodUrl == <<"https://", "techsiro.com", "/c">>

ForeignUrl == <<"https://", "evil.example", "/c">>

\* a page of another site with the text techsiro.com in its path
ForeignUrlNamingDomain == <<"https://", "evil.example", "/techsiro.com">>

ProductA == [name |-> <<"A">>, url |-> <<"https://", "techsiro.com", "/a">>]

ProductB == [name |-> <<"B">>, url |-> <<"https://", "techsiro.com", "/b">>]

\* contents of the products file when the server starts
InitialLists == { SubSeq(<<ProductA, ProductB>>, 1, n) : n \in 0..2 }

\* the bodies <<name, url>> sent to POST /api/products: a field missing or
\* empty, a URL of another site, a URL of the site, a URL of another site
\* that holds the text techsiro.com
PostBodies ==
    { <<undefined, GoodUrl>>, <<<<>>, GoodUrl>>, <<<<"C">>, undefined>>,
      <<<<"C">>, ForeignUrl>>, <<<<"C">>, GoodUrl>>, <<<<"C">>, ForeignUrlNamingDomain>> }

\* values of the :index parameter: in range or too large with the length of
\* the list, negative, not a number
IndexParams == {<<"1">>, <<"-", "1">>, <<"x">>}

\* what axios.get may give for a product URL: it rejects, or it gives the
\* page of a product
FetchOutcomes == {FetchFailed, Fetched(PricePage)}

\* fs.readFile and fs.writeFile succeed or reject
FileOutcomes == BOOLEAN

Receive(req) ==
    /\ Len(requests) < MaxRequests
    /\ requests' = Append(requests, req)
    /\ UNCHANGED products
    /\ UNCHANGED extractVars
    /\ UNCHANGED numeralVars

\* GET /api/products is received (line 345)
GetProducts == Receive(NewRequest("GET /api/products"))

\* GET /api/price/:index is received (lines 357-359)
GetPrice ==
    \E param \in IndexParams :
        Receive([NewRequest("GET /api/price/:index") EXCEPT !.index = parseInt(param)])

\* GET /api/prices is received (line 383)
GetPrices == Receive(NewRequest("GET /api/prices"))

\* POST requests that may still append to the list
PendingPosts ==
    {i \in 1..Len(requests) :
        requests[i].method = "POST /api/products" /\ requests[i].pc # "done"}

\* POST /api/products is received (lines 408-419)
PostProducts ==
    \E body \in PostBodies :
        LET req == [NewRequest("POST /api/products") EXCEPT !.name = body[1], !.url = body[2]]
            check == PostProductsChecks(body[1], body[2])
        IN  /\ Len(products) + Cardinality(PendingPosts) < MaxProducts
            /\ Receive(IF check[1] # 0
                       THEN Answer(req, check[1], <<"error", check[2]>>)
                       ELSE req)

\* DELETE /api/products/:index is received (lines 436-438)
DeleteProducts ==
    \E param \in IndexParams :
        Receive([NewRequest("DELETE /api/products/:index") EXCEPT !.index = parseInt(param)])

\* the handler after await fs.readFile and JSON.parse, up to its next await
AfterRead(req, list) ==
    CASE req.method = "GET /api/products" ->
            Answer(req, 200, list)
      [] req.method = "GET /api/price/:index" ->
            IF IndexOutOfRange(req.index, list)
            THEN Answer(req, 404, <<"error", "Product not found">>)
            ELSE IF req.index = NaN
            THEN Answer(req, 500, <<"error", "Failed to fetch price">>)
            ELSE [req EXCEPT !.pc = "scrape", !.list = list,
                             !.pages = <<unset>>, !.scraped = <<unset>>]
      [] req.method = "GET /api/prices" ->
            [req EXCEPT !.pc = "scrape", !.list = list,
                        !.pages = [k \in 1..Len(list) |-> unset],
                        !.scraped = [k \in 1..Len(list) |-> unset]]
      [] req.method = "POST /api/products" ->
            [req EXCEPT !.pc = "write",
                        !.list = Append(list, [name |-> req.name, url |-> req.url])]
      [] req.method = "DELETE /api/products/:index" ->
            IF IndexOutOfRange(req.index, list)
            THEN Answer(req, 404, <<"error", "Product not found">>)
            ELSE [req EXCEPT !.pc = "write", !.list = Splice(list, req.index),
                             !.body = Spliced(list, req.index)]

\* the message of the catch block of a handler
FailureOf(method) ==
    CASE method = "GET /api/products" -> "Failed to read products"
      [] method = "GET /api/price/:index" -> "Failed to fetch price"
      [] method = "GET /api/prices" -> "Failed to fetch prices"
      [] method = "POST /api/products" -> "Failed to add product"
      [] method = "DELETE /api/products/:index" -> "Failed to delete product"

\* catch (error) { res.status(500).json(..) }
Fail(req) == Answer(req, 500, <<"error", FailureOf(req.method)>>)

\* await fs.readFile(PRODUCTS_FILE) of request i settles
ReadFile(i) ==
    /\ requests[i].pc = "read"
    /\ \E ok \in FileOutcomes :
          requests' = [requests EXCEPT ![i] =
                          IF ok THEN AfterRead(requests[i], products) ELSE Fail(requests[i])]
    /\ UNCHANGED products
    /\ UNCHANGED extractVars
    /\ UNCHANGED numeralVars

\* a scrape that shares its price variable with the other calls: once a call
\* of any request has come back without a price, so does this one
ScrapeProductSharing(i, k) ==
    /\ requests[i].pc = "scrape"
    /\ requests[i].scraped[k] = unset
    /\ \E outcome \in FetchOutcomes :
          requests' = [requests EXCEPT ![i].pages[k] = outcome,
                                       ![i].scraped[k] =
                                           IF \E j \in 1..Len(requests) :
                                                 \E l \in 1..Len(requests[j].scraped) :
                                                     requests[j].scraped[l] = null
                                           THEN null
                                           ELSE scrapePrice(outcome),
                                       ![i].settled = Append(@, k)]
    /\ UNCHANGED products
    /\ UNCHANGED extractVars
    /\ UNCHANGED numeralVars

\* a scrape that saves the list its handler read back to the file
ScrapeProductSaving(i, k) ==
    /\ requests[i].pc = "scrape"
    /\ requests[i].scraped[k] = unset
    /\ \E outcome \in FetchOutcomes :
          requests' = [requests EXCEPT ![i].pages[k] = outcome,
                                       ![i].scraped[k] = scrapePrice(outcome),
                                       ![i].settled = Append(@, k)]
    /\ products' = requests[i].list
    /\ UNCHANGED extractVars
    /\ UNCHANGED numeralVars

\* await scrapePrice(product.url) of request i settles for its k-th call
ScrapeProduct(i, k) ==
    /\ requests[i].pc = "scrape"
    /\ requests[i].scraped[k] = unset
    /\ \E outcome \in FetchOutcomes :
          requests' = [requests EXCEPT ![i].pages[k] = outcome,
                                       ![i].scraped[k] = scrapePrice(outcome),
                                       ![i].settled = Append(@, k)]
    /\ UNCHANGED products
    /\ UNCHANGED extractVars
    /\ UNCHANGED numeralVars

\* the answer of a price handler once its scrapePrice calls are settled
AfterScrape(req) ==
    IF \E k \in 1..Len(req.scraped) : req.scraped[k] = threw THEN Fail(req)
    ELSE IF req.method = "GET /api/prices"
    THEN Answer(req, 200, [k \in 1..Len(req.list) |-> PriceEntry(req, k)])
    ELSE Answer(req, 200,
                <<[name |-> req.list[req.index + 1].name,
                   url |-> req.list[req.index + 1].url,
                   price |-> req.scraped[1]]>>)

\* request i answers after await scrapePrice (line 370) or await Promise.all
\* (lines 399-400): all calls fulfilled, or one rejected
Respond(i) ==
    /\ requests[i].pc = "scrape"
    /\ \/ \A k \in 1..Len(requests[i].scraped) : requests[i].scraped[k] # unset
       \/ \E k \in 1..Len(requests[i].scraped) : requests[i].scraped[k] = threw
    /\ requests' = [requests EXCEPT ![i] = AfterScrape(requests[i])]
    /\ UNCHANGED products
    /\ UNCHANGED extractVars
    /\ UNCHANGED numeralVars

\* the success answer of POST (line 428) and of DELETE (line 450)
Written(req) ==
    IF req.method = "POST /api/products"
    THEN Answer(req, 200, <<[name |-> req.name, url |-> req.url]>>)
    ELSE Answer(req, 200, req.body)

\* await fs.writeFile(PRODUCTS_FILE, ..) of request i settles and it answers
WriteFile(i) ==
    /\ requests[i].pc = "write"
    /\ \E ok \in FileOutcomes :
          /\ requests' = [requests EXCEPT ![i] =
                             IF ok THEN Written(requests[i]) ELSE Fail(requests[i])]
          /\ products' = IF ok THEN requests[i].list ELSE products
    /\ UNCHANGED extractVars
    /\ UNCHANGED numeralVars

Init ==
    /\ products \in InitialLists
    /\ requests = <<>>
    /\ ExtractIdle
    /\ NumeralIdle

Next ==
    \/ GetProducts
    \/ GetPrice
    \/ GetPrices
    \/ PostProducts
    \/ DeleteProducts
    \/ \E i \in 1..Len(requests) : ReadFile(i)
    \/ \E i \in 1..Len(requests) : \E k \in 1..Len(requests[i].scraped) : ScrapeProduct(i, k)
    \/ \E i \in 1..Len(requests) : Respond(i)
    \/ \E i \in 1..Len(requests) : WriteFile(i)

Spec == Init /\ [][Next]_vars

(***************************************************************************)
(* Properties of the server                                                *)
(***************************************************************************)

\* the requests of one route
RequestsOf(method) == {i \in 1..Len(requests) : requests[i].method = method}

\* the price text of PricePage: 63600000 in Persian digits
PricePagePrice == <<"p6", "p3", "p6", "p0", "p0", "p0", "p0", "p0">>

\* C7: scrapePrice never raises: whatever axios.get gives, its result is null
\* or a numeral, and null when the fetch failed.  So GET /api/prices, once it
\* has read the list, answers 200 with one entry per product, the entry of a
\* failing product with price null and the others with their price; its only
\* error answer is the 500 of a rejected fs.readFile, before any scrape.
C7_ScrapeNeverRaises ==
    \A i \in 1..Len(requests) :
        LET req == requests[i]
        IN  /\ \A k \in 1..Len(req.scraped) :
                  /\ req.scraped[k] # threw
                  /\ req.pages[k] = FetchFailed => req.scraped[k] = null
            /\ (req.method = "GET /api/prices" /\ req.pc = "done") =>
                  \/ /\ req.status = 500
                     /\ req.pages = <<>>
                     /\ req.list = <<>>
                  \/ /\ req.status = 200
                     /\ Len(req.body) = Len(req.list)
                     /\ \A k \in 1..Len(req.list) :
                           /\ req.body[k].name = req.list[k].name
                           /\ req.body[k].url = req.list[k].url
                           /\ req.pages[k] = FetchFailed => req.body[k].price = null
                           /\ req.pages[k] = Fetched(PricePage) =>
                                 req.body[k].price = PricePagePrice

\* GET /api/prices over two products: the fetch of the first failed, the
\* second has its price
C7_Witness ==
    \E i \in RequestsOf("GET /api/prices") :
        /\ requests[i].pc = "done"
        /\ requests[i].status = 200
        /\ Len(requests[i].list) = 2
        /\ requests[i].pages = <<FetchFailed, Fetched(PricePage)>>
        /\ requests[i].body[1].price = null
        /\ requests[i].body[2].price = PricePagePrice

\* the host of the URL is the target domain
BelongsToDomain(url) == Len(url) >= 2 /\ url[2] = "techsiro.com"

\* C10: POST /api/products answers 400 to every request whose name or url
\* is missing or empty or whose URL does not belong to techsiro.com, and the
\* list holds only products whose URL belongs to that domain and whose
\* fields are not empty.
C10_PostRejectsForeignUrl ==
    /\ \A i \in RequestsOf("POST /api/products") :
          (Missing(requests[i].name) \/ Missing(requests[i].url)
              \/ ~BelongsToDomain(requests[i].url))
          => (requests[i].pc = "done" /\ requests[i].status = 400)
    /\ \A k \in 1..Len(products) :
          /\ BelongsToDomain(products[k].url)
          /\ ~Missing(products[k].name)

\* C11: the answer of GET /api/prices has one entry per product of the list
\* the handler read, in the order of the list: entry i has index i and the
\* name and url of the product at position i, in whatever order the
\* scrapePrice calls settled.
C11_EntriesInListOrder ==
    \A i \in RequestsOf("GET /api/prices") :
        (requests[i].pc = "done" /\ requests[i].status = 200) =>
            /\ Len(requests[i].body) = Len(requests[i].list)
            /\ Len(requests[i].settled) = Len(requests[i].list)
            /\ \A k \in 1..Len(requests[i].list) :
                  /\ requests[i].body[k].index = k - 1
                  /\ requests[i].body[k].name = requests[i].list[k].name
                  /\ requests[i].body[k].url = requests[i].list[k].url

\* the call for the second product settled before the call for the first,
\* and the entries are in the order of the list
C11_Witness ==
    \E i \in RequestsOf("GET /api/prices") :
        /\ requests[i].pc = "done"
        /\ requests[i].status = 200
        /\ requests[i].list = <<ProductA, ProductB>>
        /\ requests[i].settled = <<2, 1>>
        /\ requests[i].body[1].index = 0
        /\ requests[i].body[1].name = <<"A">>
        /\ requests[i].body[2].index = 1
        /\ requests[i].body[2].name = <<"B">>

\* the routes that read the list and extract prices
ReadingRoutes == {"GET /api/products", "GET /api/price/:index", "GET /api/prices"}

\* the routes that write the list
WritingRoutes == {"POST /api/products", "DELETE /api/products/:index"}

\* C12: no step of GET /api/products, GET /api/price/:index or
\* GET /api/prices, whatever its index and its outcome, changes the products
\* file, nor does the arrival of a request; the file changes only when the
\* fs.writeFile of a POST or DELETE handler settles.
C12_ExtractionKeepsList ==
    [][ /\ \A i \in 1..Len(requests) :
              (requests[i].method \in ReadingRoutes /\ requests'[i] # requests[i])
                  => products' = products
        /\ Len(requests') # Len(requests) => products' = products
        /\ products' # products =>
              \E i \in 1..Len(requests) :
                  /\ requests[i].method \in WritingRoutes
                  /\ requests[i].pc = "write"
                  /\ requests'[i].pc = "done" ]_vars

\* GET /api/price/:index with an index that is not a number answered 500,
\* GET /api/prices answered with a failed fetch among its entries, and the
\* file holds the two products it held
C12_Witness ==
    /\ products = <<ProductA, ProductB>>
    /\ \E i \in RequestsOf("GET /api/price/:index") :
          /\ requests[i].pc = "done"
          /\ requests[i].index = NaN
          /\ requests[i].status = 500
    /\ \E i \in RequestsOf("GET /api/prices") :
          /\ requests[i].pc = "done"
          /\ requests[i].status = 200
          /\ requests[i].list = <<ProductA, ProductB>>
          /\ FetchFailed \in Range(requests[i].pages)

\* what scrapePrice returns for a fetch outcome when it runs alone: null when
\* the fetch failed or no element of the page qualifies, else the numeral of
\* the first qualifying element without its separators
AloneResult(outcome) ==
    IF outcome = FetchFailed THEN null
    ELSE LET qualifying == {j \in 1..Len(outcome[2]) : Qualifies(outcome[2][j])}
         IN  IF qualifying = {} THEN null
             ELSE LET first == CHOOSE j \in qualifying : \A l \in qualifying : j <= l
                  IN  SeparatorsStripped(priceMatch(outcome[2][first].text))

\* AloneResult over the outcomes of the fetches of the server
AloneResults == [outcome \in FetchOutcomes |-> AloneResult(outcome)]

\* C13: each scrapePrice call returns what it would return alone on its own
\* fetch outcome, whatever calls of the same or of other requests are in
\* flight, have failed or have succeeded; and once a call has returned, no
\* later step changes its outcome or its result.
C13_ExtractionIndependent ==
    [][ \A i \in 1..Len(requests) :
            \A k \in 1..Len(requests[i].scraped) :
                IF requests[i].scraped[k] = unset
                THEN requests'[i].scraped[k] # unset =>
                         requests'[i].scraped[k] = AloneResults[requests'[i].pages[k]]
                ELSE /\ requests'[i].scraped[k] = requests[i].scraped[k]
                     /\ requests'[i].pages[k] = requests[i].pages[k] ]_vars

\* in one GET /api/prices the fetch for the first product failed first and
\* the second product still has its price, while a call of another request
\* has its price and one more is in flight
C13_Witness ==
    \E i, j \in 1..Len(requests) :
        /\ i # j
        /\ requests[i].method = "GET /api/prices"
        /\ requests[i].pages = <<FetchFailed, Fetched(PricePage)>>
        /\ requests[i].settled = <<1, 2>>
        /\ requests[i].scraped = <<null, PricePagePrice>>
        /\ requests[j].pc = "scrape"
        /\ requests[j].scraped = <<PricePagePrice, unset>>

\* every request received has been answered
AllResponded == \A i \in 1..Len(requests) : requests[i].pc = "done"

\* the requests of a route that answered success
Succeeded(method) == {i \in RequestsOf(method) : requests[i].status = 200}

\* the positions of the list that hold a product added by POST
Posted == {k \in 1..Len(products) : products[k].name = <<"C">>}

\* C14: once every request has answered, no update is lost: when no DELETE
\* succeeded the list holds one product for every POST that answered
\* success, two concurrent POSTs leaving two; and a product of the initial
\* list that a DELETE (with a numeric index) answered as deleted is not in
\* the list.
C14_NoLostUpdates ==
    AllResponded =>
        /\ Succeeded("DELETE /api/products/:index") = {} =>
               Cardinality(Posted) = Cardinality(Succeeded("POST /api/products"))
        /\ \A i \in Succeeded("DELETE /api/products/:index") :
               (requests[i].index # NaN /\ requests[i].body[1].name # <<"C">>) =>
                   \A k \in 1..Len(products) : products[k] # requests[i].body[1]

\* C15: DELETE /api/products/:index with an index that is negative or not
\* a number never gets to write the list and never answers success: its
\* answer is 404 (or the 500 of a rejected fs.readFile); and every DELETE
\* that answers success has an index that is an integer from 0.
C15_DeleteOnlyInRange ==
    \A i \in RequestsOf("DELETE /api/products/:index") :
        /\ (requests[i].index = NaN \/ requests[i].index < 0) =>
               /\ requests[i].pc # "write"
               /\ requests[i].pc = "done" => requests[i].status \in {404, 500}
        /\ (requests[i].pc = "done" /\ requests[i].status = 200) =>
               (requests[i].index # NaN /\ requests[i].index >= 0)

====
